---- MODULE Spec2Model ----
(***************************************************************************)
(* A model of the pull-request review script src/src/prreviewer.py.        *)
(*                                                                         *)
(* One run of main() is a sequence of steps: the command line is the       *)
(* initial state, every HTTP response is an input chosen when the request  *)
(* is issued, and the run ends by returning, by exit(1) or by an uncaught  *)
(* exception.  Text that is only printed is kept as TLA+ strings; text     *)
(* that is encoded or decoded (file contents) is kept as sequences of      *)
(* code points and bytes, so that base64 and UTF-8 are computed.           *)
(*                                                                         *)
(* The older variant src/pr-reviewer.py does not compile (its last `for`   *)
(* has no body, an IndentationError), so it has no run to model.           *)
(***************************************************************************)
EXTENDS Integers, Sequences, FiniteSets, TLC

(***************************************************************************)
(* Bounds of the model and constants of the program.                       *)
(***************************************************************************)
\* the longest list of changed files the file-list endpoint answers with
MaxListed == 3

\* default of --max-files
DefaultMaxFiles == 30
\* default of --max-tokens and --max-input-tokens
DefaultMaxTokens == 4096
\* the only status code the three fetch functions accept
HTTP_OK == 200

(***************************************************************************)
(* Values: JSON values of the responses, Python's unbound local, results   *)
(* of a conversion that may raise.                                         *)
(***************************************************************************)
JStr(s) == [type |-> "string", value |-> s]
JNull == [type |-> "null"]
JArray(items) == [type |-> "array", items |-> items]
\* a local that is not bound (yet, or any more), and a Python list
Unbound == [type |-> "unbound"]
PyList(items) == [type |-> "list", items |-> items]

Ok(v) == [ok |-> TRUE, value |-> v]
Raise(t, m) == [ok |-> FALSE, type |-> t, message |-> m]

(***************************************************************************)
(* UTF-8, as str.encode('utf-8') and bytes.decode('utf-8') compute it      *)
(* (strict error handling).  A string is a sequence of code points, a      *)
(* bytes object a sequence of numbers below 256.                           *)
(***************************************************************************)
utf8_encode_char(cp) ==
    IF cp < 128 THEN <<cp>>
    ELSE IF cp < 2048 THEN <<192 + (cp \div 64), 128 + (cp % 64)>>
    ELSE IF cp < 65536 THEN
        <<224 + (cp \div 4096), 128 + ((cp \div 64) % 64), 128 + (cp % 64)>>
    ELSE <<240 + (cp \div 262144), 128 + ((cp \div 4096) % 64),
           128 + ((cp \div 64) % 64), 128 + (cp % 64)>>

RECURSIVE utf8_encode(_)
utf8_encode(s) ==
    IF s = <<>> THEN <<>>
    ELSE utf8_encode_char(Head(s)) \o utf8_encode(Tail(s))

utf8_is_cont(b, lo, hi) == b >= lo /\ b <= hi

\* the number of bytes of the sequence that starts with lead byte b0 (0: invalid)
utf8_seq_len(b0) ==
    IF b0 < 128 THEN 1
    ELSE IF b0 >= 194 /\ b0 <= 223 THEN 2
    ELSE IF b0 >= 224 /\ b0 <= 239 THEN 3
    ELSE IF b0 >= 240 /\ b0 <= 244 THEN 4
    ELSE 0

\* the range of the second byte after lead byte b0
utf8_second_lo(b0) == IF b0 = 224 THEN 160 ELSE IF b0 = 240 THEN 144 ELSE 128
utf8_second_hi(b0) == IF b0 = 237 THEN 159 ELSE IF b0 = 244 THEN 143 ELSE 191

utf8_lead_bits(b0, n) ==
    IF n = 1 THEN b0 ELSE IF n = 2 THEN b0 - 192 ELSE IF n = 3 THEN b0 - 224 ELSE b0 - 240

RECURSIVE utf8_cont_bits(_, _, _, _)
utf8_cont_bits(b, i, n, acc) ==
    IF n = 0 THEN acc ELSE utf8_cont_bits(b, i + 1, n - 1, acc * 64 + (b[i] - 128))

utf8_seq_valid(b, i, n) ==
    /\ n > 0
    /\ i + n - 1 <= Len(b)
    /\ n >= 2 => utf8_is_cont(b[i + 1], utf8_second_lo(b[i]), utf8_second_hi(b[i]))
    /\ \A k \in 2..(n - 1) : utf8_is_cont(b[i + k], 128, 191)

RECURSIVE utf8_decode_from(_, _, _)
utf8_decode_from(b, i, acc) ==
    IF i > Len(b) THEN Ok(acc)
    ELSE LET n == utf8_seq_len(b[i]) IN
         IF utf8_seq_valid(b, i, n)
         THEN utf8_decode_from(b, i + n,
                  Append(acc, utf8_cont_bits(b, i + 1, n - 1, utf8_lead_bits(b[i], n))))
         ELSE Raise("UnicodeDecodeError", "'utf-8' codec can't decode byte")

utf8_decode(b) == utf8_decode_from(b, 1, <<>>)

(***************************************************************************)
(* base64, as base64.b64encode and base64.b64decode (validate=False)       *)
(* compute it.  A base64 text is a sequence of ASCII codes.                *)
(***************************************************************************)
B64_PAD == 61

\* the alphabet A-Z a-z 0-9 + /
b64_char(v) ==
    IF v < 26 THEN 65 + v
    ELSE IF v < 52 THEN 97 + (v - 26)
    ELSE IF v < 62 THEN 48 + (v - 52)
    ELSE IF v = 62 THEN 43 ELSE 47

\* the value of an alphabet character, 64 for any other character
b64_value(c) ==
    IF c >= 65 /\ c <= 90 THEN c - 65
    ELSE IF c >= 97 /\ c <= 122 THEN c - 97 + 26
    ELSE IF c >= 48 /\ c <= 57 THEN c - 48 + 52
    ELSE IF c = 43 THEN 62
    ELSE IF c = 47 THEN 63
    ELSE 64

RECURSIVE b64encode(_)
b64encode(b) ==
    IF Len(b) = 0 THEN <<>>
    ELSE IF Len(b) = 1 THEN
        <<b64_char(b[1] \div 4), b64_char((b[1] % 4) * 16), B64_PAD, B64_PAD>>
    ELSE IF Len(b) = 2 THEN
        <<b64_char(b[1] \div 4), b64_char((b[1] % 4) * 16 + (b[2] \div 16)),
          b64_char((b[2] % 16) * 4), B64_PAD>>
    ELSE <<b64_char(b[1] \div 4), b64_char((b[1] % 4) * 16 + (b[2] \div 16)),
           b64_char((b[2] % 16) * 4 + (b[3] \div 64)), b64_char(b[3] % 64)>>
         \o b64encode(SubSeq(b, 4, Len(b)))

\* binascii.a2b_base64, not strict: characters outside the alphabet are skipped,
\* a complete pad sequence ends the parse, an incomplete last quad raises
RECURSIVE a2b_base64(_, _, _, _, _, _)
a2b_base64(s, i, quad_pos, leftchar, pads, out) ==
    IF i > Len(s) THEN
        IF quad_pos = 0 THEN Ok(out)
        ELSE IF quad_pos = 1
        THEN Raise("binascii.Error", "Invalid base64-encoded string")
        ELSE Raise("binascii.Error", "Incorrect padding")
    ELSE IF s[i] = B64_PAD THEN
        IF quad_pos >= 2 /\ quad_pos + pads + 1 >= 4 THEN Ok(out)
        ELSE a2b_base64(s, i + 1, quad_pos, leftchar,
                        IF quad_pos >= 2 THEN pads + 1 ELSE pads, out)
    ELSE IF b64_value(s[i]) >= 64 THEN
        a2b_base64(s, i + 1, quad_pos, leftchar, pads, out)
    ELSE LET v == b64_value(s[i]) IN
        IF quad_pos = 0 THEN a2b_base64(s, i + 1, 1, v, 0, out)
        ELSE IF quad_pos = 1 THEN
            a2b_base64(s, i + 1, 2, v % 16, 0, Append(out, leftchar * 4 + (v \div 16)))
        ELSE IF quad_pos = 2 THEN
            a2b_base64(s, i + 1, 3, v % 4, 0, Append(out, leftchar * 16 + (v \div 4)))
        ELSE a2b_base64(s, i + 1, 0, 0, 0, Append(out, leftchar * 64 + v))

\* base64.b64decode of a str: the str must be ASCII
b64decode(s) ==
    IF \E i \in 1..Len(s) : s[i] >= 128
    THEN Raise("ValueError", "string argument should contain only ASCII characters")
    ELSE a2b_base64(s, 1, 0, 0, 0, <<>>)

string_to_base64(s) == b64encode(utf8_encode(s))

base64_to_string(b) ==
    LET raw == b64decode(b) IN
    IF raw.ok THEN utf8_decode(raw.value) ELSE raw

(***************************************************************************)
(* The state of one run.                                                   *)
(***************************************************************************)
VARIABLES
    \* the command line, constant for the run
    pr_number, repo_ownr, repo_name, gh_token,
    review_title, review_body, review_diffs, debug, verbose,
    max_files, max_tokens, max_input_tokens, max_input_tokens_pf,
    \* the module global and the locals of main and get_pr_file_list
    DEBUG, pr_title, pr_body, changed_files, response_json, idx, file_list,
    \* the position in main, and how the process ended
    pc, outcome,
    \* what the run has done so far: lines written to standard output, the
    \* messages handed to printout, the HTTP requests issued (each with its response)
    stdout, calls, requests

cli == <<pr_number, repo_ownr, repo_name, gh_token,
         review_title, review_body, review_diffs, debug, verbose,
         max_files, max_tokens, max_input_tokens, max_input_tokens_pf>>
locals == <<pr_title, pr_body, changed_files, response_json, idx, file_list>>
vars == <<cli, DEBUG, locals, pc, outcome, stdout, calls, requests>>

(***************************************************************************)
(* The inputs: command lines and HTTP responses.                           *)
(***************************************************************************)
\* --max-input-tokens below, at and above --max-tokens, which keeps its default
InputTokenValues == {DefaultMaxTokens - 1, DefaultMaxTokens, DefaultMaxTokens + 1}
MaxFilesValues == {-1, 0, 1, DefaultMaxFiles}

StatusCodes == {HTTP_OK, 403, 404}

\* PR metadata: the title is a string, the body a string or null
PrTitles == {JStr("Fix bug")}
PrBodies == {JStr("Closes #1"), JNull}
PrDataJson == {[type |-> "object", title |-> t, body |-> b] : t \in PrTitles, b \in PrBodies}

\* changed-file entries of the file-list response
FileNames == {"a.py", "b.py"}
FileEntry(f) ==
    [filename |-> f,
     patch |-> "@@ -1 +1 @@ " \o f,
     contents_url |-> "https://api.github.com/repos/o/r/contents/" \o f \o "?ref=abc"]
FileEntries == {FileEntry(f) : f \in FileNames}
FileListJson == {JArray(l) : l \in UNION {[1..n -> FileEntries] : n \in 0..MaxListed}}

\* file contents: text ("a", and e-acute with a line break) whose UTF-8 bytes the
\* server encodes, and bytes that are no UTF-8 (e-acute in Latin-1); the server
\* ends the base64 text with a line break (code 10)
FileTexts == {<<97>>, <<233, 10>>}
FileBlobs == {<<233>>}
ContentBodies ==
    {string_to_base64(t) \o <<10>> : t \in FileTexts}
    \cup {b64encode(b) \o <<10>> : b \in FileBlobs}
ContentJson == {[type |-> "object", content |-> c] : c \in ContentBodies}

Response(status, json) == [status_code |-> status, json |-> json]
\* the responses of an endpoint: any of the status codes with any of its bodies
Responses(bodies) == {Response(s, j) : s \in StatusCodes, j \in bodies}

(***************************************************************************)
(* The helpers of the script.                                              *)
(***************************************************************************)
headers(token) ==
    [Authorization |-> "token " \o token, Accept |-> "application/vnd.github+json"]

\* requests.get: the request as issued, with the response it got; entry is the
\* position in the file list of the entry a content request is for (0 otherwise)
Get(kind, url, token, entry, response) ==
    [method |-> "GET", kind |-> kind, url |-> url, headers |-> headers(token),
     entry |-> entry, response |-> response]

pr_url(number, ownr, name) ==
    "https://api.github.com/repos/" \o ownr \o "/" \o name \o "/pulls/" \o number
files_url(number, ownr, name) == pr_url(number, ownr, name) \o "/files"

\* a status check that takes only server errors for failures
only_server_errors_failed(status_code) == status_code >= 500

\* the status checks of the three fetch functions
get_pr_data_failed(status_code) == status_code # HTTP_OK
get_pr_file_list_failed(status_code) == status_code # HTTP_OK
get_file_content_failed(status_code) == status_code # HTTP_OK

\* the message without the status code
pull_request_error_without_status(status_code) ==
    Raise("Exception", "Error fetching pull request")

\* the uncaught exceptions the fetch functions raise
pull_request_error(status_code) ==
    Raise("Exception", "Error fetching pull request: " \o ToString(status_code))
file_contents_error(status_code) ==
    Raise("Exception", "Error fetching file contents: " \o ToString(status_code))

\* str(x), as an f-string field formats x
int_str(n) == ToString(n)
bool_str(b) == IF b THEN "True" ELSE "False"
\* str(x) of a JSON value: a string as it is, null as None
json_str(j) == IF j.type = "null" THEN "None" ELSE j.value

print(out, text) == Append(out, [via |-> "print", text |-> text])

\* printout that does not read the global
printout_output_mode_only(mode) == mode

\* printout: prints if mode or the global DEBUG is set
printout_output(mode) == mode \/ DEBUG
printout(out, fstring, mode) ==
    IF printout_output(mode)
    THEN Append(out, [via |-> "printout", text |-> fstring])
    ELSE out

RECURSIVE underline(_, _)
underline(signature, n) ==
    IF n <= 0 THEN signature ELSE underline(signature \o "=", n - 1)

script_signature(number, ownr, name) ==
    LET signature == "\nRunning reviews on PR #" \o number \o " in "
                     \o ownr \o "/" \o name \o "...\n"
    IN  underline(signature, Len(signature) - 2) \o "\n"

\* the body line showing the title
body_line_of_title(body) == "\t" \o json_str(pr_title)

title_line(title) == "\t" \o json_str(title)
body_line(body) == "\t" \o json_str(body)

\* the two messages of the token check; the source quotes the comparison in
\* backticks, a character TLA+ strings do not have: an apostrophe stands for it
backticks(s) == "'" \o s \o "'"
token_error_message == "!!!ERROR: " \o backticks("max_input_tokens > max_tokens") \o "\n"
token_warning_message ==
    "!!!WARN: " \o backticks("max_input_tokens = max_tokens") \o " (not recommended)\n"

\* the comparison of the error turned around, the comparison of the warning lost
token_limit_exceeded_reversed(input_tokens, tokens) == input_tokens < tokens
token_limit_reached_never(input_tokens, tokens) == input_tokens > tokens

token_limit_exceeded(input_tokens, tokens) == input_tokens > tokens
token_limit_reached(input_tokens, tokens) == input_tokens = tokens

\* the metadata fetched for the title only
wants_pr_data_for_title == review_title

wants_pr_data == review_title \/ review_body

\* the loop stopped after max_files entries
loop_has_next_up_to_max_files(i, json) == i <= Len(json.items) /\ i <= max_files

\* for file in response.json(): whether the loop has a next entry
loop_has_next(i, json) == i <= Len(json.items)

Running == [kind |-> "running"]
Returned == [kind |-> "return", code |-> 0]
Exited(code) == [kind |-> "exit", code |-> code]
Uncaught(exc) == [kind |-> "exception", code |-> 1, type |-> exc.type, message |-> exc.message]

(***************************************************************************)
(* The run.                                                                *)
(***************************************************************************)
Init ==
    /\ pr_number = 7
    /\ repo_ownr = "o"
    /\ repo_name = "r"
    /\ gh_token = "ghp_t"
    /\ review_title \in BOOLEAN
    /\ review_body \in BOOLEAN
    /\ review_diffs \in BOOLEAN
    /\ debug \in BOOLEAN
    /\ verbose \in BOOLEAN
    /\ max_files \in MaxFilesValues
    /\ max_tokens = DefaultMaxTokens
    /\ max_input_tokens \in InputTokenValues
    /\ max_input_tokens_pf = DefaultMaxTokens
    /\ DEBUG = FALSE
    /\ pr_title = Unbound
    /\ pr_body = Unbound
    /\ changed_files = Unbound
    /\ response_json = Unbound
    /\ idx = 0
    /\ file_list = Unbound
    /\ pc = "start"
    /\ outcome = Running
    /\ stdout = <<>>
    /\ calls = <<>>
    /\ requests = <<>>

\* global DEBUG; DEBUG = debug
SetDebug ==
    /\ pc = "start"
    /\ DEBUG' = debug
    /\ pc' = "signature"
    /\ UNCHANGED <<cli, locals, outcome, stdout, calls, requests>>

\* print_script_signature(str(pr_number), repo_ownr, repo_name, verbose)
PrintScriptSignature ==
    /\ pc = "signature"
    /\ LET signature == script_signature(int_str(pr_number), repo_ownr, repo_name) IN
        /\ stdout' = printout(stdout, signature, verbose)
        /\ calls' = Append(calls, signature)
    /\ pc' = "program_call"
    /\ UNCHANGED <<cli, DEBUG, locals, outcome, requests>>

program_call_lines ==
    << "PROGRAM CALL",
       "\tpr_number: " \o int_str(pr_number),
       "\trepo_ownr: " \o repo_ownr,
       "\trepo_name: " \o repo_name,
       "\tgh_token:  " \o gh_token,
       "\treview_title: " \o bool_str(review_title),
       "\treview_body: " \o bool_str(review_body),
       "\treview_diffs: " \o bool_str(review_diffs),
       "\tverbose: " \o bool_str(verbose),
       "\tdebug: " \o bool_str(debug),
       "\n" >>

RECURSIVE print_all(_, _)
print_all(out, lines) ==
    IF lines = <<>> THEN out ELSE print_all(print(out, Head(lines)), Tail(lines))

\* if debug: print("PROGRAM CALL") ...
PrintProgramCall ==
    /\ pc = "program_call"
    /\ stdout' = IF debug THEN print_all(stdout, program_call_lines) ELSE stdout
    /\ pc' = "validate"
    /\ UNCHANGED <<cli, DEBUG, locals, outcome, calls, requests>>

\* the two checks of max_input_tokens against max_tokens
ValidateTokens ==
    /\ pc = "validate"
    /\ IF token_limit_exceeded(max_input_tokens, max_tokens)
       THEN /\ stdout' = print(stdout, token_error_message)
            /\ outcome' = Exited(1)
            /\ pc' = "exited"
       ELSE /\ stdout' = IF token_limit_reached(max_input_tokens, max_tokens)
                         THEN print(stdout, token_warning_message)
                         ELSE stdout
            /\ outcome' = outcome
            /\ pc' = "pr_data"
    /\ UNCHANGED <<cli, DEBUG, locals, calls, requests>>

\* if review_title or review_body: pr_data = get_pr_data(...).json()
GetPrData ==
    /\ pc = "pr_data"
    /\ wants_pr_data
    /\ \E response \in Responses(PrDataJson) :
        /\ requests' = Append(requests,
               Get("pr", pr_url(int_str(pr_number), repo_ownr, repo_name), gh_token, 0, response))
        /\ IF get_pr_data_failed(response.status_code)
           THEN /\ outcome' = Uncaught(pull_request_error(response.status_code))
                /\ pc' = "exited"
                /\ UNCHANGED <<pr_title, pr_body>>
           ELSE /\ pr_title' = response.json.title
                /\ pr_body' = response.json.body
                /\ outcome' = outcome
                /\ pc' = "review_title"
    /\ UNCHANGED <<cli, DEBUG, changed_files, response_json, idx, file_list, stdout, calls>>

\* neither the title nor the body is reviewed: the block is skipped
SkipPrData ==
    /\ pc = "pr_data"
    /\ ~wants_pr_data
    /\ pc' = "review_diffs"
    /\ UNCHANGED <<cli, DEBUG, locals, outcome, stdout, calls, requests>>

\* if review_title != False: two printouts
ReviewTitle ==
    /\ pc = "review_title"
    /\ IF review_title # FALSE
       THEN /\ stdout' = printout(printout(stdout, "Reviewing the title:", verbose),
                                  title_line(pr_title), verbose)
            /\ calls' = calls \o <<"Reviewing the title:", title_line(pr_title)>>
       ELSE UNCHANGED <<stdout, calls>>
    /\ pc' = "review_body"
    /\ UNCHANGED <<cli, DEBUG, locals, outcome, requests>>

\* if review_body != False: two printouts
ReviewBody ==
    /\ pc = "review_body"
    /\ IF review_body # FALSE
       THEN /\ stdout' = printout(printout(stdout, "Reviewing the body:", verbose),
                                  body_line(pr_body), verbose)
            /\ calls' = calls \o <<"Reviewing the body:", body_line(pr_body)>>
       ELSE UNCHANGED <<stdout, calls>>
    /\ pc' = "review_diffs"
    /\ UNCHANGED <<cli, DEBUG, locals, outcome, requests>>

\* if review_diffs != False: printout, then get_pr_file_list up to its loop
ReviewDiffs ==
    /\ pc = "review_diffs"
    /\ review_diffs # FALSE
    /\ stdout' = printout(stdout, "Reviewing the files:", verbose)
    /\ calls' = Append(calls, "Reviewing the files:")
    /\ \E response \in Responses(FileListJson) :
        /\ requests' = Append(requests,
               Get("files", files_url(int_str(pr_number), repo_ownr, repo_name), gh_token, 0,
                   response))
        /\ IF get_pr_file_list_failed(response.status_code)
           THEN /\ outcome' = Uncaught(pull_request_error(response.status_code))
                /\ pc' = "exited"
                /\ UNCHANGED <<response_json, idx, file_list>>
           ELSE /\ file_list' = PyList(<<>>)
                /\ response_json' = response.json
                /\ idx' = 1
                /\ outcome' = outcome
                /\ pc' = "file_loop"
    /\ UNCHANGED <<cli, DEBUG, pr_title, pr_body, changed_files>>

\* the diffs are not reviewed: main returns
SkipDiffs ==
    /\ pc = "review_diffs"
    /\ ~(review_diffs # FALSE)
    /\ outcome' = Returned
    /\ pc' = "exited"
    /\ UNCHANGED <<cli, DEBUG, locals, stdout, calls, requests>>

\* one iteration of the loop of get_pr_file_list: get_file_content, append
FetchFile ==
    /\ pc = "file_loop"
    /\ loop_has_next(idx, response_json)
    /\ LET file == response_json.items[idx] IN
       \E response \in Responses(ContentJson) :
        /\ requests' = Append(requests,
               Get("contents", file.contents_url, gh_token, idx, response))
        /\ IF get_file_content_failed(response.status_code)
           THEN /\ outcome' = Uncaught(file_contents_error(response.status_code))
                /\ pc' = "exited"
                /\ file_list' = Unbound
                /\ response_json' = Unbound
                /\ idx' = 0
           ELSE LET content == base64_to_string(response.json.content) IN
                IF content.ok
                THEN /\ file_list' = PyList(Append(file_list.items,
                                            <<file.filename, file.patch, content.value>>))
                     /\ idx' = idx + 1
                     /\ UNCHANGED <<outcome, pc, response_json>>
                ELSE /\ outcome' = Uncaught(content)
                     /\ pc' = "exited"
                     /\ file_list' = Unbound
                     /\ response_json' = Unbound
                     /\ idx' = 0
    /\ UNCHANGED <<cli, DEBUG, pr_title, pr_body, changed_files, stdout, calls>>

\* return file_list; changed_files = ...; the empty loop over it; main returns
ReturnFileList ==
    /\ pc = "file_loop"
    /\ ~loop_has_next(idx, response_json)
    /\ changed_files' = file_list
    /\ file_list' = Unbound
    /\ response_json' = Unbound
    /\ idx' = 0
    /\ outcome' = Returned
    /\ pc' = "exited"
    /\ UNCHANGED <<cli, DEBUG, pr_title, pr_body, stdout, calls, requests>>

Next ==
    \/ SetDebug
    \/ PrintScriptSignature
    \/ PrintProgramCall
    \/ ValidateTokens
    \/ GetPrData
    \/ SkipPrData
    \/ ReviewTitle
    \/ ReviewBody
    \/ ReviewDiffs
    \/ SkipDiffs
    \/ FetchFile
    \/ ReturnFileList

Spec == Init /\ [][Next]_vars

(***************************************************************************)
(* Readings of a state that the properties below share.                    *)
(***************************************************************************)
Terminated == pc = "exited"
BeforeValidation == pc \in {"start", "signature", "program_call", "validate"}

Status(r) == r.response.status_code
Succeeded(r) == Status(r) = 200
RequestsOfKind(kind) == SelectSeq(requests, LAMBDA r : r.kind = kind)
PrRequests == RequestsOfKind("pr")
FilesRequests == RequestsOfKind("files")
ContentRequests == RequestsOfKind("contents")
SomeRequestFailed == \E i \in 1..Len(requests) : ~Succeeded(requests[i])
LastRequest == requests[Len(requests)]

\* the file list the file-list endpoint answered with
Listing == FilesRequests[1].response.json.items

Printed(text) == \E i \in 1..Len(stdout) : stdout[i].text = text
PrintedVia(via) == SelectSeq(stdout, LAMBDA l : l.via = via)
TextsOf(lines) == [i \in 1..Len(lines) |-> lines[i].text]

(***************************************************************************)
(* C1.  With max_input_tokens > max_tokens, whatever the toggles: no HTTP  *)
(* request is issued at any point of the run, and once the token check has *)
(* run the process has exited with status 1, the last line printed being   *)
(* the error that quotes "max_input_tokens > max_tokens".                  *)
(***************************************************************************)
C1_ExitBeforeAnyRequest ==
    max_input_tokens > max_tokens =>
        /\ requests = <<>>
        /\ ~BeforeValidation =>
            /\ Terminated
            /\ outcome = [kind |-> "exit", code |-> 1]
            /\ stdout # <<>>
            /\ stdout[Len(stdout)].text
                   = "!!!ERROR: '" \o "max_input_tokens > max_tokens" \o "'\n"

\* a run that asked for every review and was stopped by the token check
C1_Witness ==
    /\ max_input_tokens > max_tokens
    /\ review_title /\ review_body /\ review_diffs
    /\ Terminated
    /\ outcome.kind = "exit"

(***************************************************************************)
(* C2.  With max_input_tokens = max_tokens the run prints the warning,     *)
(* does not exit at the token check, and has issued at least one HTTP      *)
(* request when it ends (the claim as stated).                             *)
(***************************************************************************)
C2_WarnThenRequest ==
    (max_input_tokens = max_tokens /\ Terminated) =>
        /\ Printed("!!!WARN: '" \o "max_input_tokens = max_tokens" \o "' (not recommended)\n")
        /\ outcome.kind # "exit"
        /\ Len(requests) >= 1

(***************************************************************************)
(* C2, amended.  With max_input_tokens = max_tokens the run prints the     *)
(* warning once and does not exit at the token check; no request precedes  *)
(* the check, and the run issues at least one HTTP request exactly when    *)
(* one of review_title, review_body, review_diffs is set: with all three   *)
(* unset it returns without any request.                                   *)
(***************************************************************************)
C2_WarnThenRequestIfAsked ==
    max_input_tokens = max_tokens =>
        /\ BeforeValidation => requests = <<>>
        /\ ~BeforeValidation =>
            /\ Len(SelectSeq(stdout, LAMBDA l :
                   l.text = "!!!WARN: '" \o "max_input_tokens = max_tokens"
                            \o "' (not recommended)\n")) = 1
            /\ outcome.kind # "exit"
        /\ Terminated =>
            (Len(requests) >= 1 <=> (review_title \/ review_body \/ review_diffs))

\* a run with equal limits that went on to the network
C2_Witness ==
    /\ max_input_tokens = max_tokens
    /\ Terminated
    /\ Len(requests) >= 2

(***************************************************************************)
(* C3.  get_pr_file_list aborts on the first failure: the content requests *)
(* are for the entries 1, 2, ... of the file list in that order, one each, *)
(* at the entry's contents_url; none follows a failed one; and once the    *)
(* file-list request or a content request has failed the function has      *)
(* raised: the process has ended with the uncaught exception and no list,  *)
(* not even a partial one, was returned.                                   *)
(***************************************************************************)
C3_AbortOnFirstFailure ==
    LET cr == ContentRequests IN
    /\ Len(FilesRequests) <= 1
    /\ cr # <<>> => (FilesRequests # <<>> /\ Succeeded(FilesRequests[1]))
    /\ \A i \in 1..Len(cr) :
        /\ cr[i].entry = i
        /\ i <= Len(Listing)
        /\ cr[i].url = Listing[i].contents_url
        /\ i < Len(cr) => Succeeded(cr[i])
    /\ (\E i \in 1..Len(requests) :
            requests[i].kind \in {"files", "contents"} /\ ~Succeeded(requests[i])) =>
        /\ Terminated
        /\ outcome.kind = "exception"
        /\ changed_files = Unbound
        /\ file_list = Unbound

\* the second of three listed entries failed: one fetched before it, one never asked for
C3_Witness ==
    /\ Len(ContentRequests) = 2
    /\ Len(Listing) = 3
    /\ Succeeded(ContentRequests[1])
    /\ ~Succeeded(ContentRequests[2])
    /\ Terminated

(***************************************************************************)
(* C4.  When the file-list request and the content request of every listed *)
(* entry returned 200, get_pr_file_list has returned one (filename, patch, *)
(* content) triple per entry, in the order of the listing, the content     *)
(* being the text whose base64 the content endpoint answered with, and the *)
(* function issued 1 + n requests for a listing of n entries.              *)
(***************************************************************************)
\* a base64 text without the characters b64decode skips
AlphabetOnly(body) == SelectSeq(body, LAMBDA c : c = 61 \/ b64_value(c) < 64)

AllContentFetched ==
    /\ Terminated
    /\ FilesRequests # <<>>
    /\ Succeeded(FilesRequests[1])
    /\ Len(ContentRequests) = Len(Listing)
    /\ \A i \in 1..Len(ContentRequests) : Succeeded(ContentRequests[i])

FileListMatchesListing ==
    /\ outcome.kind = "return"
    /\ changed_files.type = "list"
    /\ Len(changed_files.items) = Len(Listing)
    /\ \A i \in 1..Len(Listing) :
        /\ changed_files.items[i][1] = Listing[i].filename
        /\ changed_files.items[i][2] = Listing[i].patch
        /\ string_to_base64(changed_files.items[i][3])
               = AlphabetOnly(ContentRequests[i].response.json.content)
    /\ Len(FilesRequests) + Len(ContentRequests) = 1 + Len(Listing)

C4_OneTriplePerEntry == AllContentFetched => FileListMatchesListing

\* the same, for content that is base64 of UTF-8 text
FileListOfTextFiles ==
    (/\ AllContentFetched
     /\ \A i \in 1..Len(ContentRequests) :
            \E t \in FileTexts :
                AlphabetOnly(ContentRequests[i].response.json.content) = string_to_base64(t))
    => FileListMatchesListing

(***************************************************************************)
(* C5.  Once a request has been answered with a status other than 200, the *)
(* process has ended with an uncaught exception whose message carries that *)
(* status code; the failed request is the last of the run and the only one *)
(* that failed (no retry, no backoff); and no partial output: no line of   *)
(* standard output shows anything of a response (title, body, file names)  *)
(* (the claim as stated).                                                  *)
(***************************************************************************)
ShownText(j) == IF j.type = "string" THEN j.value ELSE "None"

\* what a printed line can show of the response to request r
DerivedTexts(r) ==
    IF r.kind = "pr"
    THEN {ShownText(r.response.json.title), "\t" \o ShownText(r.response.json.title),
          ShownText(r.response.json.body), "\t" \o ShownText(r.response.json.body)}
    ELSE IF r.kind = "files"
    THEN {r.response.json.items[i].filename : i \in 1..Len(r.response.json.items)}
    ELSE {}

ShowsResponse(text) == \E i \in 1..Len(requests) : text \in DerivedTexts(requests[i])

FailsWithStatus ==
    /\ Terminated
    /\ outcome.kind = "exception"
    /\ outcome.code # 0
    /\ outcome.type = "Exception"
    /\ outcome.message \in
           {"Error fetching pull request: " \o ToString(Status(LastRequest)),
            "Error fetching file contents: " \o ToString(Status(LastRequest))}
    /\ \A i \in 1..Len(requests) : Succeeded(requests[i]) <=> i < Len(requests)

C5_FailureWithoutPartialOutput ==
    SomeRequestFailed =>
        /\ FailsWithStatus
        /\ \A i \in 1..Len(stdout) : ~ShowsResponse(stdout[i].text)

(***************************************************************************)
(* C5, amended.  Once a request has been answered with a status other than *)
(* 200, the process has ended with an uncaught exception whose message     *)
(* carries that status code; the failed request is the last of the run and *)
(* the only one that failed.  Nothing of the failed response is printed,   *)
(* but what was printed before it stays: when it is the file-list or a     *)
(* content request that failed after a successful metadata request, the    *)
(* title line (if review_title) and the body line (if review_body) are on  *)
(* standard output exactly when verbose or debug is set.                   *)
(***************************************************************************)
C5_FailureKeepsEarlierOutput ==
    SomeRequestFailed =>
        /\ FailsWithStatus
        /\ LastRequest.kind = "pr" =>
               \A i \in 1..Len(stdout) : ~ShowsResponse(stdout[i].text)
        /\ \A i \in 1..Len(stdout) :
               ShowsResponse(stdout[i].text) => stdout[i].text \in DerivedTexts(requests[1])
        /\ (LastRequest.kind # "pr" /\ PrRequests # <<>>) =>
            LET pr == PrRequests[1].response.json IN
            /\ review_title =>
                   (Printed("\t" \o ShownText(pr.title)) <=> (verbose \/ debug))
            /\ review_body =>
                   (Printed("\t" \o ShownText(pr.body)) <=> (verbose \/ debug))

\* the title was printed, then the file-list request failed
C5_Witness ==
    /\ SomeRequestFailed
    /\ LastRequest.kind = "files"
    /\ PrRequests # <<>>
    /\ Printed("\t" \o ShownText(PrRequests[1].response.json.title))

(***************************************************************************)
(* C6.  In a run that passed the token check: the PR-metadata GET is       *)
(* issued exactly once if review_title or review_body is set and never if  *)
(* neither is; the file-list GET is issued at most once and only if        *)
(* review_diffs is set; with the three toggles unset no request is issued. *)
(***************************************************************************)
C6_RequestsFollowToggles ==
    /\ Len(PrRequests) <= 1
    /\ PrRequests # <<>> => (review_title \/ review_body)
    /\ (~BeforeValidation /\ pc # "pr_data" /\ outcome.kind # "exit") =>
           Len(PrRequests) = IF review_title \/ review_body THEN 1 ELSE 0
    /\ Len(FilesRequests) <= 1
    /\ FilesRequests # <<>> => review_diffs
    /\ ContentRequests # <<>> => review_diffs
    /\ (~review_title /\ ~review_body /\ ~review_diffs) => requests = <<>>

\* only the body and the diffs are reviewed: one metadata GET, one file-list GET
C6_Witness ==
    /\ ~review_title /\ review_body /\ review_diffs
    /\ Terminated
    /\ Len(PrRequests) = 1
    /\ Len(FilesRequests) = 1

(***************************************************************************)
(* C7.  max_files is never applied.  What a run does is told by its other  *)
(* inputs alone (the toggles, the token limits and the responses): which   *)
(* requests it issues and in which order, the file list it returns and how *)
(* it ends, so two runs that differ only in max_files and get the same     *)
(* responses agree on all three.  In particular every listed entry gets    *)
(* its content request, also when the listing is longer than max_files.    *)
(***************************************************************************)
GoodContent(r) == Succeeded(r) /\ base64_to_string(r.response.json.content).ok

C7_MaxFilesNeverApplied ==
    LET valid == max_input_tokens <= max_tokens
        pr == PrRequests
        fl == FilesRequests
        cr == ContentRequests
        listed == fl # <<>> /\ Succeeded(fl[1])
        complete == listed /\ Len(cr) = Len(Listing)
                           /\ \A i \in 1..Len(cr) : GoodContent(cr[i])
    IN
    /\ requests = pr \o fl \o cr
    /\ \A i \in 1..Len(cr) : cr[i].entry = i /\ cr[i].url = Listing[i].contents_url
    /\ Terminated =>
        /\ Len(pr) = IF valid /\ (review_title \/ review_body) THEN 1 ELSE 0
        /\ Len(fl) = IF valid /\ review_diffs /\ (pr = <<>> \/ Succeeded(pr[1]))
                     THEN 1 ELSE 0
        /\ ~listed => cr = <<>>
        /\ listed =>
            /\ Len(cr) <= Len(Listing)
            /\ \A i \in 1..(Len(cr) - 1) : GoodContent(cr[i])
            /\ Len(cr) < Len(Listing) => (cr # <<>> /\ ~GoodContent(cr[Len(cr)]))
        /\ IF complete
           THEN /\ changed_files.type = "list"
                /\ Len(changed_files.items) = Len(Listing)
           ELSE changed_files = Unbound
        /\ outcome.kind =
               IF ~valid THEN "exit"
               ELSE IF \/ SomeRequestFailed
                       \/ listed /\ ~complete
               THEN "exception"
               ELSE "return"

\* three files listed and fetched with max_files = 1
C7_Witness ==
    /\ max_files = 1
    /\ Terminated
    /\ outcome.kind = "return"
    /\ Len(ContentRequests) = 3
    /\ Len(changed_files.items) = 3

(***************************************************************************)
(* C8.  With verbose, review_title and review_body set and valid token     *)
(* limits, after a 200 metadata response the output has a line with the    *)
(* title and, after it, a line with the body, each exactly as returned     *)
(* (the claim as stated, for every title and body the response may hold).  *)
(***************************************************************************)
TitleAndBodyReviewed ==
    /\ verbose /\ review_title /\ review_body
    /\ max_input_tokens <= max_tokens
    /\ PrRequests # <<>>
    /\ Succeeded(PrRequests[1])
    /\ pc \notin {"review_title", "review_body"}

Shows(line, j) == j.type = "string" /\ line.text = "\t" \o j.value

RequestsInOrder ==
    /\ requests # <<>> => (~BeforeValidation /\ max_input_tokens <= max_tokens)
    /\ requests = PrRequests \o FilesRequests \o ContentRequests
    /\ Len(PrRequests) <= 1
    /\ Len(FilesRequests) <= 1
    /\ \A i \in 1..Len(ContentRequests) : ContentRequests[i].entry = i
    /\ \A i \in 1..(Len(requests) - 1) : Succeeded(requests[i])
    /\ (PrRequests # <<>> /\ ~Succeeded(PrRequests[1])) =>
           (Terminated /\ Len(requests) = 1)

OneRequestPerStep ==
    \/ requests' = requests
    \/ /\ Len(requests') = Len(requests) + 1
       /\ SubSeq(requests', 1, Len(requests)) = requests

C9_SequentialRequests == [](RequestsInOrder) /\ [][OneRequestPerStep]_vars

\* the metadata GET failed in a run that was to review the diffs
C9_Witness ==
    /\ review_diffs
    /\ PrRequests # <<>>
    /\ ~Succeeded(PrRequests[1])
    /\ Terminated

(***************************************************************************)
(* C10.  A message handed to printout is printed if and only if verbose or *)
(* debug is set: the global DEBUG holds the debug option from before the   *)
(* first printout and keeps it.  So with debug set and verbose unset the   *)
(* banner, the title and the body are printed, and with both unset and     *)
(* max_input_tokens < max_tokens a run that returns has printed nothing.   *)
(***************************************************************************)
C10_PrintoutIffVerboseOrDebug ==
    /\ pc = "start" => calls = <<>>
    /\ pc # "start" => DEBUG = debug
    /\ TextsOf(PrintedVia("printout")) = IF verbose \/ debug THEN calls ELSE <<>>
    /\ (/\ debug /\ ~verbose /\ review_title /\ review_body
        /\ PrRequests # <<>> /\ Succeeded(PrRequests[1])
        /\ pc \notin {"review_title", "review_body"}) =>
            /\ Printed("\nRunning reviews on PR #7 in o/r...\n==================================\n")
            /\ Printed("\t" \o ShownText(PrRequests[1].response.json.title))
            /\ Printed("\t" \o ShownText(PrRequests[1].response.json.body))
    /\ (/\ ~debug /\ ~verbose /\ max_input_tokens < max_tokens
        /\ Terminated /\ outcome.kind = "return") =>
            stdout = <<>>

\* debug without verbose: the banner and the title are on standard output
C10_Witness ==
    /\ debug /\ ~verbose
    /\ Terminated
    /\ Printed("\nRunning reviews on PR #7 in o/r...\n==================================\n")
    /\ Printed("\tFix bug")

====
